---- MODULE Spec2Model ----
(***************************************************************************)
(* Model of easytier-contrib/easytier-ohrs/src/lib.rs: the OpenHarmony     *)
(* binding of EasyTier.  The binding keeps four process-wide objects       *)
(* (INSTANCE_MANAGER, TUN_FD, PROTECT_FN, SOCKET_SET) and exposes the      *)
(* instance lifecycle and the socket-protection hook to the host.          *)
(*                                                                         *)
(* Every exported function is a sequence of atomic steps; a step is one    *)
(* access to a shared object (a mutex-protected section, an atomic load or *)
(* store, one call into the instance manager).  Host threads call the      *)
(* exported functions, engine threads call protect_socket through the      *)
(* socket-creation hook.                                                   *)
(***************************************************************************)
EXTENDS Integers, FiniteSets, Sequences, TLC

\* ------------------------------------------------------------------ bounds
MaxFd == 1           \* socket descriptors are 1..MaxFd
MaxTun == 1          \* tunnel handles offered by the host are -1..MaxTun
MaxNames == 2        \* longest identifier list handed to stop

\* threads of the host runtime and worker threads of the engine
HostThreads == {"h1", "h2"}
EngineThreads == {"e1", "e2"}
Threads == HostThreads \cup EngineThreads
Fds == 1..MaxFd
TunValues == (-1)..MaxTun

\* ---------------------------------------------------------- value domains
None == "None"
NoThread == "NoThread"
Unit == "unit"

\* the two instance identifiers of the model, named by their canonical text
Uuids == {"aa", "bb"}
\* texts the host may pass where an identifier is expected
Texts == {"aa", "AA", "bb", "not-a-uuid"}
\* host callbacks that may be registered
Callbacks == {"c1", "c2"}

\* Uuid::parse_str / Uuid::try_parse: several spellings of one identifier
\* parse to the same value, anything else is an error.
ParseErr == "ParseErr"
ParseUuid(s) ==
    CASE s \in {"aa", "AA"} -> "aa"
      [] s \in {"bb"} -> "bb"
      [] OTHER -> ParseErr

\* Uuid::to_string: the canonical (lower-case) text
UuidToString(u) == u

\* TomlConfigLoader::new_from_str and get_id: a configuration text is either
\* rejected or yields a configuration declaring one identifier.
BadCfg == "BadCfg"
Configs == {BadCfg} \cup Uuids
ParseConfigOk(cfg) == cfg # BadCfg
get_id(cfg) == cfg

\* identifier lists handed to stop
RECURSIVE SeqsUpTo(_, _)
SeqsUpTo(S, n) ==
    IF n = 0 THEN {<<>>}
    ELSE LET shorter == SeqsUpTo(S, n - 1)
         IN shorter \cup {Append(q, x) : q \in {r \in shorter : Len(r) = n - 1}, x \in S}
NameLists == SeqsUpTo(Texts, MaxNames)
\* the lists that spell each set of identifiers once
IdLists == {<<>>, <<"aa">>, <<"bb">>, <<"aa", "bb">>}

\* mutant: one unparseable text makes the whole list unusable
ParsedIds_m(list) ==
    IF \E i \in 1..Len(list) : ParseUuid(list[i]) = ParseErr
    THEN {}
    ELSE {ParseUuid(list[i]) : i \in 1..Len(list)}
\* inst_names.into_iter().filter_map(|s| Uuid::parse_str(&s).ok()).collect()
ParsedIds(names) ==
    {ParseUuid(names[i]) : i \in {j \in 1..Len(names) : ParseUuid(names[j]) # ParseErr}}

\* ------------------------------------------------------------------- state
VARIABLES
    INSTANCE_MANAGER,        \* identifiers the instance manager is running
    TUN_FD,                  \* the stored tunnel handle
    PROTECT_FN,              \* the registered host callback, or None
    protect_fn_owner,        \* thread holding the PROTECT_FN mutex, or NoThread
    SOCKET_SET,              \* descriptors recorded as protected
    SOCKET_CREATE_CALLBACK,  \* TRUE once protect_socket is installed as the hook
    crashed,                 \* TRUE once an unwrap() has panicked
    pc,                      \* per thread: position in the function it runs
    inst_id,                 \* per thread: run: the configuration's identifier
    names,                   \* per thread: stop: the identifier texts given
    fd,                      \* per thread: protect_socket: the descriptor
    ret,                     \* per thread: the value returned
    called,                  \* per thread: the host callback this call invoked
                             \* (protect_socket) or stored (init_protect_fn), or None
    acked,                   \* per thread: the host has completed the invoked callback
    tun,                     \* per thread: run: the set_tun_fd calls of this call
    removed,                 \* per thread: stop: the identifiers the delete removed
    dropped,                 \* per thread: stop: the descriptors the clear dropped
    straggler,               \* per thread: protect_socket: a stop removed the last
                             \* instance while this call was past the ledger lookup,
                             \* and the host has made no call since
    invoked                  \* per descriptor: callback invocations since the last clear

shared == <<INSTANCE_MANAGER, TUN_FD, PROTECT_FN, protect_fn_owner, SOCKET_SET,
            SOCKET_CREATE_CALLBACK, crashed>>
locals == <<pc, inst_id, names, fd, ret, called, acked, tun, removed, dropped, straggler>>
vars == <<shared, locals, invoked>>

Init ==
    /\ INSTANCE_MANAGER = {}
    /\ TUN_FD = -1
    /\ PROTECT_FN = None
    /\ protect_fn_owner = NoThread
    /\ SOCKET_SET = {}
    /\ SOCKET_CREATE_CALLBACK = FALSE
    /\ crashed = FALSE
    /\ pc = [t \in Threads |-> "idle"]
    /\ inst_id = [t \in Threads |-> None]
    /\ names = [t \in Threads |-> <<>>]
    /\ fd = [t \in Threads |-> 0]
    /\ ret = [t \in Threads |-> None]
    /\ called = [t \in Threads |-> None]
    /\ acked = [t \in Threads |-> FALSE]
    /\ tun = [t \in Threads |-> <<>>]
    /\ removed = [t \in Threads |-> {}]
    /\ dropped = [t \in Threads |-> {}]
    /\ straggler = [t \in Threads |-> FALSE]
    /\ invoked = [f \in Fds |-> 0]

\* a thread can enter a function while it runs none and the process is alive
Idle(t) == pc[t] = "idle" /\ ~crashed
At(t, label) == pc[t] = label /\ ~crashed

\* ------------------------------------------------- the instance manager
\* NetworkInstanceManager::list_network_instance_ids
list_network_instance_ids == INSTANCE_MANAGER

\* NetworkInstanceManager::run_network_instance: Ok(id) inserts the identifier,
\* Err leaves the manager as it was; an identifier already running is an Err.
EngineRunOk(id, ok) == ok /\ id \notin INSTANCE_MANAGER
EngineRun(id) == INSTANCE_MANAGER \cup {id}

\* NetworkInstanceManager::delete_network_instance
EngineDelete(del) == INSTANCE_MANAGER \ del

\* ------------------------------------------------------- protect_socket
\* mutant: the ledger is never consulted
AlreadyProtected_m(f) == FALSE
\* line 30: the ledger lookup
AlreadyProtected(f) == f \in SOCKET_SET

\* lines 29-33: entry and the ledger lookup
ProtectCall(t, f) ==
    /\ Idle(t)
    /\ fd' = [fd EXCEPT ![t] = f]
    /\ IF AlreadyProtected(f)
       THEN /\ pc' = [pc EXCEPT ![t] = "protect_ret"]
            /\ ret' = [ret EXCEPT ![t] = TRUE]
       ELSE /\ pc' = [pc EXCEPT ![t] = "protect_lock"]
            /\ UNCHANGED ret
    /\ UNCHANGED <<shared, inst_id, names, called, acked, tun, removed, dropped, straggler, invoked>>

\* mutant: the PROTECT_FN mutex is not waited for
SlotFree_m == TRUE
\* lines 34 and 53: PROTECT_FN.lock() returns once no thread holds the mutex
SlotFree == protect_fn_owner = NoThread

\* mutant: the callback of the first registration is kept
RegisteredCallback_m == IF PROTECT_FN = None THEN None ELSE "c1"
\* lines 35-36 and 43: the callback the match finds in the slot
RegisteredCallback == PROTECT_FN

\* mutant: an empty slot is reported as success
NoCallbackResult_m == TRUE
\* line 45: what protect_socket returns when the slot is empty
NoCallbackResult == FALSE

\* lines 34-38 and 43-46: take the PROTECT_FN mutex; with a callback, queue
\* the call to the host and start sleeping; without one, return false.
ProtectLock(t) ==
    /\ At(t, "protect_lock")
    /\ SlotFree
    /\ IF RegisteredCallback # None
       THEN /\ protect_fn_owner' = t
            /\ invoked' = [invoked EXCEPT ![fd[t]] = @ + 1]
            /\ called' = [called EXCEPT ![t] = RegisteredCallback]
            /\ pc' = [pc EXCEPT ![t] = "protect_sleep"]
            /\ UNCHANGED ret
       ELSE /\ pc' = [pc EXCEPT ![t] = "protect_ret"]
            /\ ret' = [ret EXCEPT ![t] = NoCallbackResult]
            /\ UNCHANGED <<protect_fn_owner, invoked, called>>
    /\ UNCHANGED <<INSTANCE_MANAGER, TUN_FD, PROTECT_FN, SOCKET_SET,
                   SOCKET_CREATE_CALLBACK, crashed, inst_id, names, fd, acked, tun, removed, dropped, straggler>>

\* the host's thread runs the queued callback and resolves its promise while
\* the caller sleeps; nothing in protect_socket waits for it
HostComplete(t) ==
    /\ At(t, "protect_sleep")
    /\ ~acked[t]
    /\ acked' = [acked EXCEPT ![t] = TRUE]
    /\ UNCHANGED <<shared, pc, inst_id, names, fd, ret, called, tun, removed, dropped, straggler, invoked>>

\* line 41: what protect_socket returns once the sleep is over
SleepResult(done) == TRUE
\* line 40: the ledger once the sleep is over
SleepLedger(f, done) == SOCKET_SET \cup {f}

\* lines 38-41: the sleep is over; record the descriptor, release the mutex
\* and return true
ProtectInsert(t) ==
    /\ At(t, "protect_sleep")
    /\ SOCKET_SET' = SleepLedger(fd[t], acked[t])
    /\ protect_fn_owner' = NoThread
    /\ ret' = [ret EXCEPT ![t] = SleepResult(acked[t])]
    /\ pc' = [pc EXCEPT ![t] = "protect_ret"]
    /\ UNCHANGED <<INSTANCE_MANAGER, TUN_FD, PROTECT_FN, SOCKET_CREATE_CALLBACK, crashed,
                   inst_id, names, fd, called, acked, tun, removed, dropped, straggler, invoked>>

\* ------------------------------------------------------ init_protect_fn
\* lines 53-54: take the PROTECT_FN mutex and store the callback
InitProtectFn(t, cb) ==
    /\ Idle(t)
    /\ SlotFree
    /\ protect_fn_owner' = t
    /\ PROTECT_FN' = cb
    /\ called' = [called EXCEPT ![t] = cb]
    /\ pc' = [pc EXCEPT ![t] = "init_hook"]
    /\ UNCHANGED <<INSTANCE_MANAGER, TUN_FD, SOCKET_SET, SOCKET_CREATE_CALLBACK, crashed,
                   inst_id, names, fd, ret, acked, tun, removed, dropped, invoked>>
    /\ straggler' = [u \in Threads |-> FALSE]

\* lines 55-57: install the hook; both guards are dropped at the end
InitHook(t) ==
    /\ At(t, "init_hook")
    /\ SOCKET_CREATE_CALLBACK' = TRUE
    /\ protect_fn_owner' = NoThread
    /\ ret' = [ret EXCEPT ![t] = Unit]
    /\ pc' = [pc EXCEPT ![t] = "init_ret"]
    /\ UNCHANGED <<INSTANCE_MANAGER, TUN_FD, PROTECT_FN, SOCKET_SET, crashed,
                   inst_id, names, fd, called, acked, tun, removed, dropped, straggler, invoked>>

\* ------------------------------------------------------- set_global_tun
\* lines 66-69: one atomic store
SetGlobalTun(t, v) ==
    /\ Idle(t)
    /\ TUN_FD' = v
    /\ UNCHANGED <<INSTANCE_MANAGER, PROTECT_FN, protect_fn_owner, SOCKET_SET,
                   SOCKET_CREATE_CALLBACK, crashed, pc, inst_id, names, fd, ret, called,
                   acked, tun, removed, dropped, invoked>>
    /\ straggler' = [u \in Threads |-> FALSE]

\* ------------------------------------------------- run_network_instance
\* mutant: the single-instance check is off by one
HasRunningInstance_m == Cardinality(list_network_instance_ids) > 1
\* line 94: the single-instance check
HasRunningInstance == Cardinality(list_network_instance_ids) > 0

\* mutant: the duplicate-identifier check is inverted
IsDuplicate_m(id) == id \notin list_network_instance_ids
\* lines 100-103: the duplicate-identifier check
IsDuplicate(id) == id \in list_network_instance_ids

\* lines 86-97: parse the configuration, then the single-instance check
RunCall(t, cfg) ==
    /\ Idle(t)
    /\ IF ~ParseConfigOk(cfg)
       THEN /\ pc' = [pc EXCEPT ![t] = "run_ret"]
            /\ ret' = [ret EXCEPT ![t] = FALSE]
            /\ UNCHANGED inst_id
       ELSE IF HasRunningInstance
       THEN /\ pc' = [pc EXCEPT ![t] = "run_ret"]
            /\ ret' = [ret EXCEPT ![t] = FALSE]
            /\ inst_id' = [inst_id EXCEPT ![t] = get_id(cfg)]
       ELSE /\ pc' = [pc EXCEPT ![t] = "run_dup"]
            /\ inst_id' = [inst_id EXCEPT ![t] = get_id(cfg)]
            /\ UNCHANGED ret
    /\ UNCHANGED <<shared, names, fd, called, acked, tun, removed, dropped, invoked>>
    /\ straggler' = [u \in Threads |-> FALSE]

\* lines 99-105
RunDup(t) ==
    /\ At(t, "run_dup")
    /\ IF IsDuplicate(inst_id[t])
       THEN /\ pc' = [pc EXCEPT ![t] = "run_ret"]
            /\ ret' = [ret EXCEPT ![t] = FALSE]
       ELSE /\ pc' = [pc EXCEPT ![t] = "run_engine"]
            /\ UNCHANGED ret
    /\ UNCHANGED <<shared, inst_id, names, fd, called, acked, tun, removed, dropped, straggler, invoked>>

\* lines 106-108: the instance manager runs the instance; unwrap() panics on Err
RunEngine(t, ok) ==
    /\ At(t, "run_engine")
    /\ IF EngineRunOk(inst_id[t], ok)
       THEN /\ INSTANCE_MANAGER' = EngineRun(inst_id[t])
            /\ pc' = [pc EXCEPT ![t] = "run_tun"]
            /\ UNCHANGED crashed
       ELSE /\ crashed' = TRUE
            /\ pc' = [pc EXCEPT ![t] = "panicked"]
            /\ UNCHANGED INSTANCE_MANAGER
    /\ UNCHANGED <<TUN_FD, PROTECT_FN, protect_fn_owner, SOCKET_SET, SOCKET_CREATE_CALLBACK,
                   inst_id, names, fd, ret, called, acked, tun, removed, dropped, straggler, invoked>>

\* mutant: descriptor 0 is taken for a usable handle
ApplyTun_m(v) == v >= 0
\* line 110: is the loaded handle to be applied
ApplyTun(v) == v > 0

\* lines 109 and 111: the set_tun_fd calls made for a loaded handle
TunCalls(id, v, assigned) ==
    IF ApplyTun(v) THEN <<[id |-> id, fd |-> v, ok |-> assigned]>> ELSE <<>>

\* mutant: a refused handle is reported as a failed start
RunResult_m(assigned) == assigned
\* line 123: what run_network_instance returns once the instance runs
RunResult(assigned) == TRUE

\* lines 109-123: load the handle, hand a positive one to the instance
\* manager (whose answer is only logged), return true
RunTun(t, assigned) ==
    /\ At(t, "run_tun")
    /\ ApplyTun(TUN_FD) \/ assigned
    /\ tun' = [tun EXCEPT ![t] = TunCalls(inst_id[t], TUN_FD, assigned)]
    /\ ret' = [ret EXCEPT ![t] = RunResult(assigned)]
    /\ pc' = [pc EXCEPT ![t] = "run_ret"]
    /\ UNCHANGED <<shared, inst_id, names, fd, called, acked, removed, dropped, straggler, invoked>>

\* ------------------------------------------------ stop_network_instance
\* lines 128-135: drop the unparseable texts, delete the others; unwrap()
\* panics on Err
StopCall(t, list, ok) ==
    /\ Idle(t)
    /\ names' = [names EXCEPT ![t] = list]
    /\ IF ok
       THEN /\ INSTANCE_MANAGER' = EngineDelete(ParsedIds(list))
            /\ pc' = [pc EXCEPT ![t] = "stop_check"]
            /\ UNCHANGED crashed
       ELSE /\ crashed' = TRUE
            /\ pc' = [pc EXCEPT ![t] = "panicked"]
            /\ UNCHANGED INSTANCE_MANAGER
    /\ removed' = [removed EXCEPT ![t] = INSTANCE_MANAGER \ INSTANCE_MANAGER']
    /\ straggler' = [u \in Threads |->
                       \/ straggler[u]
                       \/ /\ INSTANCE_MANAGER # {} /\ INSTANCE_MANAGER' = {}
                          /\ pc[u] \in {"protect_lock", "protect_sleep"}]
    /\ UNCHANGED <<TUN_FD, PROTECT_FN, protect_fn_owner, SOCKET_SET, SOCKET_CREATE_CALLBACK,
                   inst_id, fd, ret, called, acked, tun, dropped, invoked>>

\* mutant: the ledger is cleared by every stop
RegistryEmpty_m == TRUE
\* line 137
RegistryEmpty == list_network_instance_ids = {}

\* lines 137 and 140
StopCheck(t) ==
    /\ At(t, "stop_check")
    /\ IF RegistryEmpty
       THEN /\ pc' = [pc EXCEPT ![t] = "stop_clear"]
            /\ UNCHANGED ret
       ELSE /\ pc' = [pc EXCEPT ![t] = "stop_ret"]
            /\ ret' = [ret EXCEPT ![t] = Unit]
    /\ UNCHANGED <<shared, inst_id, names, fd, called, acked, tun, removed, dropped, straggler, invoked>>

\* mutant: the clear is forgotten
ClearedLedger_m == SOCKET_SET
\* line 138: the ledger after the clear
ClearedLedger == {}

\* line 138
StopClear(t) ==
    /\ At(t, "stop_clear")
    /\ SOCKET_SET' = ClearedLedger
    /\ invoked' = [f \in Fds |-> IF f \in ClearedLedger THEN invoked[f] ELSE 0]
    /\ dropped' = [dropped EXCEPT ![t] = SOCKET_SET \ SOCKET_SET']
    /\ ret' = [ret EXCEPT ![t] = Unit]
    /\ pc' = [pc EXCEPT ![t] = "stop_ret"]
    /\ UNCHANGED <<INSTANCE_MANAGER, TUN_FD, PROTECT_FN, protect_fn_owner,
                   SOCKET_CREATE_CALLBACK, crashed, inst_id, names, fd, called, acked, tun,
                   removed, straggler>>

\* ------------------------------------------------------------- queries
\* lines 168-175
CollectRunningNetwork(t) ==
    /\ Idle(t)
    /\ ret' = [ret EXCEPT ![t] = {UuidToString(u) : u \in list_network_instance_ids}]
    /\ pc' = [pc EXCEPT ![t] = "list_ret"]
    /\ UNCHANGED <<shared, inst_id, names, fd, called, acked, tun, removed, dropped, invoked>>
    /\ straggler' = [u \in Threads |-> FALSE]

\* lines 144-164: the keys of the result: kept are the instances in the map
\* the manager returned whose info serializes; an Err from the manager gives an
\* empty result
NetworkInfoKeys(ok, kept) ==
    IF ok THEN {UuidToString(u) : u \in kept} ELSE {}

\* lines 142-165
CollectNetworkInfos(t, ok, kept) ==
    /\ Idle(t)
    /\ ret' = [ret EXCEPT ![t] = NetworkInfoKeys(ok, kept)]
    /\ pc' = [pc EXCEPT ![t] = "infos_ret"]
    /\ UNCHANGED <<shared, inst_id, names, fd, called, acked, tun, removed, dropped, invoked>>
    /\ straggler' = [u \in Threads |-> FALSE]

\* lines 179-189
IsRunningResult(text) ==
    IF ParseUuid(text) # ParseErr
    THEN ParseUuid(text) \in list_network_instance_ids
    ELSE FALSE

\* lines 178-190
IsRunningNetwork(t, text) ==
    /\ Idle(t)
    /\ names' = [names EXCEPT ![t] = <<text>>]
    /\ ret' = [ret EXCEPT ![t] = IsRunningResult(text)]
    /\ pc' = [pc EXCEPT ![t] = "query_ret"]
    /\ UNCHANGED <<shared, inst_id, fd, called, acked, tun, removed, dropped, invoked>>
    /\ straggler' = [u \in Threads |-> FALSE]

\* ---------------------------------------------------------------- return
RetLabels == {"protect_ret", "init_ret", "run_ret", "stop_ret", "list_ret", "infos_ret",
              "query_ret"}

\* the function returns to its caller; the thread is free for the next call
Return(t) ==
    /\ pc[t] \in RetLabels /\ ~crashed
    /\ pc' = [pc EXCEPT ![t] = "idle"]
    /\ inst_id' = [inst_id EXCEPT ![t] = None]
    /\ names' = [names EXCEPT ![t] = <<>>]
    /\ fd' = [fd EXCEPT ![t] = 0]
    /\ ret' = [ret EXCEPT ![t] = None]
    /\ called' = [called EXCEPT ![t] = None]
    /\ acked' = [acked EXCEPT ![t] = FALSE]
    /\ tun' = [tun EXCEPT ![t] = <<>>]
    /\ removed' = [removed EXCEPT ![t] = {}]
    /\ dropped' = [dropped EXCEPT ![t] = {}]
    /\ straggler' = [straggler EXCEPT ![t] = FALSE]
    /\ UNCHANGED <<shared, invoked>>

\* ---------------------------------------------------------- specifications
\* the steps of an engine thread: protect_socket, called through the hook
EngineStep(t) ==
    \/ \E f \in Fds : ProtectCall(t, f)
    \/ ProtectLock(t)
    \/ HostComplete(t)
    \/ ProtectInsert(t)
    \/ Return(t)

\* the steps of a host thread calling the exported functions; stop is given
\* one of lists
HostStep(t, lists) ==
    \/ \E cb \in Callbacks : InitProtectFn(t, cb)
    \/ InitHook(t)
    \/ \E v \in TunValues : SetGlobalTun(t, v)
    \/ \E cfg \in Configs : RunCall(t, cfg)
    \/ RunDup(t)
    \/ \E ok \in BOOLEAN : RunEngine(t, ok)
    \/ \E assigned \in BOOLEAN : RunTun(t, assigned)
    \/ \E list \in lists, ok \in BOOLEAN : StopCall(t, list, ok)
    \/ StopCheck(t)
    \/ StopClear(t)
    \/ CollectRunningNetwork(t)
    \/ \E ok \in BOOLEAN, kept \in SUBSET Uuids : CollectNetworkInfos(t, ok, kept)
    \/ \E text \in Texts : IsRunningNetwork(t, text)
    \/ Return(t)

OthersIdle(t) == \A u \in Threads \ {t} : pc[u] = "idle"

\* calls are made one at a time: a thread moves only while all others are idle
SeqNext ==
    \/ \E cb \in Callbacks : OthersIdle("h1") /\ InitProtectFn("h1", cb)
    \/ OthersIdle("h1") /\ InitHook("h1")
    \/ \E v \in TunValues : OthersIdle("h1") /\ SetGlobalTun("h1", v)
    \/ \E cfg \in Configs : OthersIdle("h1") /\ RunCall("h1", cfg)
    \/ OthersIdle("h1") /\ RunDup("h1")
    \/ \E ok \in BOOLEAN : OthersIdle("h1") /\ RunEngine("h1", ok)
    \/ \E assigned \in BOOLEAN : OthersIdle("h1") /\ RunTun("h1", assigned)
    \/ \E list \in NameLists, ok \in BOOLEAN : OthersIdle("h1") /\ StopCall("h1", list, ok)
    \/ OthersIdle("h1") /\ StopCheck("h1")
    \/ OthersIdle("h1") /\ StopClear("h1")
    \/ OthersIdle("h1") /\ CollectRunningNetwork("h1")
    \/ \E ok \in BOOLEAN, kept \in SUBSET Uuids :
           OthersIdle("h1") /\ CollectNetworkInfos("h1", ok, kept)
    \/ \E text \in Texts : OthersIdle("h1") /\ IsRunningNetwork("h1", text)
    \/ OthersIdle("h1") /\ Return("h1")
    \/ \E f \in Fds : OthersIdle("e1") /\ ProtectCall("e1", f)
    \/ OthersIdle("e1") /\ ProtectLock("e1")
    \/ OthersIdle("e1") /\ HostComplete("e1")
    \/ OthersIdle("e1") /\ ProtectInsert("e1")
    \/ OthersIdle("e1") /\ Return("e1")
SeqSpec == Init /\ [][SeqNext]_vars

\* one host thread and the engine's threads, their steps interleaved
Next ==
    \/ HostStep("h1", IdLists)
    \/ \E t \in EngineThreads : EngineStep(t)
Spec == Init /\ [][Next]_vars

\* two host threads, their steps interleaved
HostRaceNext == \E t \in HostThreads : HostStep(t, IdLists)
HostRaceSpec == Init /\ [][HostRaceNext]_vars

\* fair scheduling: a thread that can take its next statement takes it, and a
\* thread waiting for the PROTECT_FN mutex gets it if it is free again and again
Fairness ==
    /\ \A e \in EngineThreads : SF_vars(ProtectLock(e)) /\ WF_vars(ProtectInsert(e))
    /\ \A h \in HostThreads : WF_vars(InitHook(h))
\* one host thread and the engine's threads, fairly scheduled
FairSpec == Init /\ [][Next]_vars /\ Fairness

\* ================================================================ claims
StartLabels == {"run_dup", "run_engine", "run_tun", "run_ret"}
StopLabels == {"stop_check", "stop_clear", "stop_ret"}

\* C1: with calls made one at a time the registry never holds more than one
\* identifier, and a start entered while an instance is running returns false
\* at once and leaves the registry as it was.
C1_SingletonSequential ==
    /\ [](Cardinality(INSTANCE_MANAGER) <= 1)
    /\ [][\A t \in HostThreads :
            (pc[t] = "idle" /\ pc'[t] \in StartLabels /\ inst_id'[t] # None
                /\ INSTANCE_MANAGER # {})
            => (pc'[t] = "run_ret" /\ ret'[t] = FALSE
                /\ INSTANCE_MANAGER' = INSTANCE_MANAGER)]_vars

\* a start with a valid configuration has been refused because of the running instance
C1_Witness ==
    /\ pc["h1"] = "run_ret" /\ ret["h1"] = FALSE
    /\ inst_id["h1"] = "bb" /\ INSTANCE_MANAGER = {"aa"}

\* C2: with starts of different host threads interleaved the registry still
\* never holds more than one identifier.
C2_SingletonConcurrent == Cardinality(INSTANCE_MANAGER) <= 1

\* C3: with calls made one at a time the host callback is invoked at most once
\* for a descriptor between two clears, and the call that finds the descriptor
\* in the ledger returns true without invoking it.
C3_IdempotentProtection ==
    /\ \A f \in Fds : invoked[f] <= 1
    /\ \A t \in EngineThreads :
         (pc[t] = "protect_ret" /\ invoked[fd[t]] = 1 /\ PROTECT_FN # None)
         => (ret[t] = TRUE /\ fd[t] \in SOCKET_SET)

\* the second of two calls for one descriptor has returned true without a callback
C3_Witness ==
    /\ pc["e1"] = "protect_ret" /\ ret["e1"] = TRUE
    /\ called["e1"] = None /\ invoked[fd["e1"]] = 1

\* C4: with engine threads interleaved the host callback is invoked at most
\* once for a descriptor between two clears of the ledger.
C4_AtMostOnceConcurrent == \A f \in Fds : invoked[f] <= 1

\* C5: a call whose callback the host has not completed when the wait is over
\* returns false and does not record the descriptor.
C5_TimeoutIsFailure ==
    \A t \in EngineThreads :
        (pc[t] = "protect_ret" /\ called[t] # None /\ ~acked[t])
        => (ret[t] = FALSE /\ fd[t] \notin SOCKET_SET)

\* C6: as long as no callback has been registered, a protection request
\* returns false, invokes nothing and the ledger stays as it was (empty).
C6_UnavailableCallback ==
    PROTECT_FN = None =>
        /\ SOCKET_SET = {}
        /\ \A f \in Fds : invoked[f] = 0
        /\ \A t \in EngineThreads :
             /\ pc[t] # "protect_sleep"
             /\ pc[t] = "protect_ret" => (ret[t] = FALSE /\ called[t] = None)

\* a request has returned false while no callback was registered
C6_Witness ==
    /\ PROTECT_FN = None
    /\ pc["e1"] = "protect_ret" /\ ret["e1"] = FALSE /\ fd["e1"] \notin SOCKET_SET

\* C7: with calls made one at a time, a stop that leaves the registry empty
\* returns with the ledger empty, and a request answered from the ledger had
\* its callback invoked since the last clear (so the first request after a
\* clear invokes the callback again).
C7_LedgerReset ==
    /\ \A t \in HostThreads :
         (pc[t] = "stop_ret" /\ INSTANCE_MANAGER = {})
         => (SOCKET_SET = {} /\ \A f \in Fds : invoked[f] = 0)
    /\ \A t \in EngineThreads :
         (pc[t] = "protect_ret" /\ (ret[t] = TRUE \/ PROTECT_FN # None))
         => invoked[fd[t]] = 1

\* stop has removed the running instance and dropped a protected descriptor
C7_Witness ==
    /\ pc["h1"] = "stop_ret" /\ removed["h1"] = {"aa"} /\ dropped["h1"] # {}
    /\ INSTANCE_MANAGER = {} /\ SOCKET_SET = {} /\ PROTECT_FN # None

\* C8: with calls made one at a time, a start that returns true leaves the
\* registry equal to its identifier alone, and a start returns false only for
\* an invalid configuration or while an instance is running.
C8_SuccessfulStart ==
    \A t \in HostThreads :
        pc[t] = "run_ret" =>
            IF ret[t] = TRUE
            THEN INSTANCE_MANAGER = {inst_id[t]}
            ELSE inst_id[t] = None \/ INSTANCE_MANAGER # {}

\* a start has returned true although the instance manager refused the handle
C8_Witness ==
    /\ pc["h1"] = "run_ret" /\ ret["h1"] = TRUE /\ INSTANCE_MANAGER = {"aa"}
    /\ Len(tun["h1"]) = 1 /\ tun["h1"][1].ok = FALSE

\* C9: with calls made one at a time, a start that returns true has called
\* set_tun_fd once, for its identifier and with the stored handle, if the
\* stored handle is positive and not at all otherwise; a start that returns
\* false has not called it; the stored handle is what it was.
C9_TunnelPropagation ==
    \A t \in HostThreads :
        pc[t] = "run_ret" =>
            IF ret[t] = TRUE /\ TUN_FD > 0
            THEN /\ Len(tun[t]) = 1
                 /\ tun[t][1].id = inst_id[t]
                 /\ tun[t][1].fd = TUN_FD
            ELSE tun[t] = <<>>

\* a start has handed the stored positive handle to the instance manager
C9_Witness ==
    /\ pc["h1"] = "run_ret" /\ ret["h1"] = TRUE
    /\ TUN_FD = MaxTun /\ Len(tun["h1"]) = 1 /\ tun["h1"][1].fd = MaxTun

\* the texts that spell an identifier
Spellings(u) == IF u = "aa" THEN {"aa", "AA"} ELSE {u}
Spelled(list) == {u \in Uuids : \E i \in 1..Len(list) : list[i] \in Spellings(u)}
Garbage(text) == \A u \in Uuids : text \notin Spellings(u)

\* C10: with calls made one at a time, stop removes exactly the running
\* identifiers that some text of its list spells, whatever else the list
\* holds; is_running of a text that spells no identifier returns false, and
\* is_running changes nothing.
C10_ParseRobustness ==
    /\ [](\A t \in HostThreads :
            /\ pc[t] \in StopLabels
               => removed[t] = Spelled(names[t]) \cap (INSTANCE_MANAGER \cup removed[t])
            /\ (pc[t] = "query_ret" /\ Garbage(names[t][1])) => ret[t] = FALSE)
    /\ [][\A t \in HostThreads :
            (pc[t] = "idle" /\ pc'[t] = "query_ret")
            => (shared' = shared /\ invoked' = invoked)]_vars

\* a stop given an unparseable text and a spelling of the running identifier
\* has removed that identifier and returned
C10_Witness ==
    /\ pc["h1"] = "stop_ret"
    /\ names["h1"] = <<"not-a-uuid", "AA">>
    /\ removed["h1"] = {"aa"} /\ INSTANCE_MANAGER = {}
\* C11: a start that returns false does so from the configuration check, the
\* single-instance check or the duplicate check, never after the instance
\* manager was asked to run or to take the handle, and its steps leave the
\* registry, the ledger, the callback slot and the tunnel handle as they were.
C11_FailedStartNoEffect ==
    [][\A t \in HostThreads :
          /\ (pc[t] # "run_ret" /\ pc'[t] = "run_ret" /\ ret'[t] = FALSE)
             => (pc[t] \in {"idle", "run_dup"} /\ tun'[t] = <<>>)
          /\ (pc[t] \in {"idle", "run_dup"} /\ pc'[t] \in {"run_dup", "run_ret"} /\ pc'[t] # pc[t])
             => (shared' = shared /\ invoked' = invoked)]_vars

\* a start has been refused while an instance runs, a descriptor is protected,
\* a callback is registered and a handle is stored
C11_Witness ==
    /\ pc["h1"] = "run_ret" /\ ret["h1"] = FALSE /\ tun["h1"] = <<>>
    /\ INSTANCE_MANAGER = {"aa"} /\ SOCKET_SET # {} /\ PROTECT_FN # None /\ TUN_FD > 0

\* C12: when the instance manager rejects a run or a delete, the call comes
\* back to its caller: no start or stop ever ends in a panic and the process
\* stays alive for later calls.
C12_EngineFailureCatchable ==
    ~crashed /\ \A t \in HostThreads : pc[t] # "panicked"

\* C13: a request that was past the ledger lookup when a stop removed the
\* last instance does not put its descriptor into the ledger once that stop
\* has returned with the registry empty.
C13_NoStraggler ==
    [][\A e \in EngineThreads :
          (/\ straggler[e]
           /\ \A h \in HostThreads : pc[h] \notin StopLabels
           /\ INSTANCE_MANAGER = {}
           /\ pc'[e] # pc[e])
          => SOCKET_SET' \subseteq SOCKET_SET]_vars

\* C14: every descriptor in the ledger has had the callback invoked for it
\* since the most recent clear of the ledger.
C14_LedgerSoundness == \A f \in SOCKET_SET : invoked[f] >= 1

\* C15: at most one thread at a time is between invoking the host callback
\* and marking its descriptor, and that thread holds the callback slot; a
\* thread enters this section only when no other thread is inside it.
C15_InvocationsSerialized ==
    /\ \A t \in Threads : pc[t] = "protect_sleep" => protect_fn_owner = t
    /\ \A t, u \in Threads :
          (pc[t] = "protect_sleep" /\ pc[u] = "protect_sleep") => t = u

\* one engine thread waits for the slot while another is inside the section
C15_Witness ==
    /\ pc["e1"] = "protect_sleep" /\ pc["e2"] = "protect_lock"
    /\ protect_fn_owner = "e1"

\* C16: the ledger loses descriptors only in the clear of a stop, which a stop
\* reaches only with the registry empty: a stop that returns with an instance
\* still running has dropped nothing, and no step of start, set_global_tun,
\* init_protect_fn or the queries removes a descriptor.
C16_ClearOnlyOnEmpty ==
    /\ [](\A h \in HostThreads :
            /\ pc[h] = "stop_clear" => INSTANCE_MANAGER = {}
            /\ (pc[h] = "stop_ret" /\ INSTANCE_MANAGER # {}) => dropped[h] = {})
    /\ [][~(SOCKET_SET \subseteq SOCKET_SET')
            => \E h \in HostThreads : pc[h] = "stop_clear" /\ pc'[h] = "stop_ret"]_vars

\* a stop naming an instance that does not run has returned; the running
\* instance still runs and the ledger still holds a descriptor
C16_Witness ==
    /\ pc["h1"] = "stop_ret" /\ names["h1"] = <<"bb">>
    /\ INSTANCE_MANAGER = {"aa"} /\ SOCKET_SET # {} /\ dropped["h1"] = {}

\* C17: no start that has passed the single-instance check is then refused
\* by the duplicate-identifier check.
C17_DuplicateUnreachable ==
    [][\A t \in HostThreads : ~(pc[t] = "run_dup" /\ pc'[t] = "run_ret")]_vars

\* C18: the slot holds one callback, the one of the latest registration: it
\* changes only when a registration stores its callback, a registration that
\* has stored or returned leaves its own callback there, a request invokes the
\* callback found in the slot when it takes the slot free, and the slot does
\* not change while a request is between its invocation and its insert.
C18_ReRegistrationReplaces ==
    /\ [](\A h \in HostThreads :
            pc[h] \in {"init_hook", "init_ret"} => PROTECT_FN = called[h])
    /\ [](\A e \in EngineThreads :
            pc[e] = "protect_sleep" => (called[e] = PROTECT_FN /\ called[e] \in Callbacks))
    /\ [][/\ \A e \in EngineThreads :
               (pc[e] = "protect_lock" /\ pc'[e] = "protect_sleep")
               => (protect_fn_owner = NoThread /\ called'[e] = PROTECT_FN)
          /\ PROTECT_FN' # PROTECT_FN
               => \E h \in HostThreads :
                     /\ pc[h] = "idle" /\ pc'[h] = "init_hook"
                     /\ PROTECT_FN' = called'[h]]_vars

\* c1 was registered and invoked by a request that has not returned yet; c2
\* has been registered since, and a later request has invoked c2
C18_Witness ==
    /\ pc["e2"] = "protect_ret" /\ called["e2"] = "c1"
    /\ pc["h1"] = "idle" /\ PROTECT_FN = "c2"
    /\ pc["e1"] = "protect_sleep" /\ called["e1"] = "c2"

\* C19: under fair scheduling every protect_socket call that has passed the
\* ledger lookup eventually returns.
C19_RequestReturns ==
    \A e \in EngineThreads :
        (pc[e] \in {"protect_lock", "protect_sleep"}) ~> (pc[e] = "protect_ret")

\* the same, for as long as no unwrap() has panicked
C19_ReturnsUnlessPanicked ==
    \A e \in EngineThreads :
        (pc[e] \in {"protect_lock", "protect_sleep"}) ~> (pc[e] = "protect_ret" \/ crashed)
====
